---------------------------- MODULE Spec2Model ----------------------------
(***************************************************************************)
(* Model of src/anagramma.js, the Italian anagram utilities.               *)
(*                                                                         *)
(* A JavaScript string is a finite sequence of UTF-16 code units, so a     *)
(* string is modelled as a sequence of naturals (the code units):          *)
(*   "a" = <<97>>, "Roma" = <<82, 111, 109, 97>>, "" = << >>.               *)
(* An array is a sequence; an array of letters is a sequence of one-unit   *)
(* strings, as String.prototype.split('') produces it.                     *)
(***************************************************************************)
EXTENDS Integers, Sequences, FiniteSets

VARIABLES pc, parola, altra, parole, unico, ris, lettere, i, scambi

vars == <<pc, parola, altra, parole, unico, ris, lettere, i, scambi>>

(***************************************************************************)
(* Bounds of the model.                                                    *)
(***************************************************************************)
\* longest input word (in code units) of the one-word operations
MaxLen == 4
\* longest input word of the two-word operations
MaxLenCoppia == 3
\* longest word list handed to raggruppaAnagrammi
MaxParole == 4

(***************************************************************************)
(* Input alphabets (code units).                                           *)
(*   Latino:        a (97), n (110), A (65), space (32)                    *)
(*   Greco:         Alpha (913), Sigma (931), alpha (945)                  *)
(*   Supplementari: the surrogates D800, D801, DC00, DC28, which spell     *)
(*                  U+10000, U+10028, U+10400 (DESERET CAPITAL LONG I)     *)
(*                  and U+10428 (DESERET SMALL LONG I)                     *)
(***************************************************************************)
Latino == {97, 110, 65, 32}

Greco == {913, 931, 945}

Supplementari == {55296, 55297, 56320, 56360}

Alfabeti == {Latino, Greco, Supplementari}

IsHigh(u) == u \in 55296..56319

IsLow(u) == u \in 56320..57343

\* a string whose surrogates all come in pairs (what a text input holds)
WellFormed(s) ==
    \A k \in 1..Len(s) :
        /\ IsHigh(s[k]) => (k < Len(s) /\ IsLow(s[k + 1]))
        /\ IsLow(s[k]) => (k > 1 /\ IsHigh(s[k - 1]))

SeqsUpTo(A, n) == UNION {[1..m -> A] : m \in 0..n}

Words(n) == {s \in UNION {SeqsUpTo(A, n) : A \in Alfabeti} : WellFormed(s)}

(***************************************************************************)
(* Built-ins of the language used by the program.                          *)
(***************************************************************************)

\* the characters matched by \s in a regular expression
Whitespace ==
    {9, 10, 11, 12, 13, 32, 160, 5760, 8232, 8233, 8239, 8287, 12288, 65279}
        \cup (8192..8202)

\* letters with a case, among the code units of the alphabets:
\* A-Z, a-z, Greek capitals, Greek small letters (final sigma 962 included)
CasedUnit(u) ==
    u \in (65..90) \cup (97..122) \cup (913..929) \cup (931..939) \cup (945..969)

\* s[k] ends a surrogate pair spelling a Deseret letter (U+10400..U+1044F)
EndsCasedPair(s, k) ==
    k > 1 /\ s[k - 1] = 55297 /\ s[k] \in 56320..56399

\* s[k] starts a surrogate pair spelling a Deseret letter
StartsCasedPair(s, k) ==
    k < Len(s) /\ s[k] = 55297 /\ s[k + 1] \in 56320..56399

\* characters ignored when looking for the cased letter around a sigma
CaseIgnorable(u) ==
    u \in {39, 46, 58, 94, 96, 168, 173, 175, 180, 183, 184} \cup (768..879)

RECURSIVE CasedBefore(_, _)
\* a cased letter, then case-ignorable characters only, ends at s[k]
CasedBefore(s, k) ==
    IF k < 1 THEN FALSE
    ELSE IF CaseIgnorable(s[k]) THEN CasedBefore(s, k - 1)
    ELSE CasedUnit(s[k]) \/ EndsCasedPair(s, k)

RECURSIVE CasedAfter(_, _)
\* case-ignorable characters only, then a cased letter, start at s[k]
CasedAfter(s, k) ==
    IF k > Len(s) THEN FALSE
    ELSE IF CaseIgnorable(s[k]) THEN CasedAfter(s, k + 1)
    ELSE CasedUnit(s[k]) \/ StartsCasedPair(s, k)

\* Final_Sigma of SpecialCasing.txt: a capital sigma that ends a word
FinalSigma(s, k) == CasedBefore(s, k - 1) /\ ~CasedAfter(s, k + 1)

LowerUnit(u) ==
    IF u \in (65..90) \cup (913..929) \cup (931..939) THEN u + 32 ELSE u

\* String.prototype.toLowerCase: the Unicode default lower-casing, which
\* maps code points (a surrogate pair is one code point) and gives a
\* capital sigma the final form at the end of a word.
toLowerCase(s) ==
    [k \in 1..Len(s) |->
        IF s[k] = 931 THEN (IF FinalSigma(s, k) THEN 962 ELSE 963)
        ELSE IF k > 1 /\ s[k - 1] = 55297 /\ s[k] \in 56320..56359
             THEN s[k] + 40
        ELSE LowerUnit(s[k])]

\* replace(/\s+/g, ''): every run of whitespace is deleted
replaceWhitespace(s) == SelectSeq(s, LAMBDA u : u \notin Whitespace)

RECURSIVE trimStart(_)
trimStart(s) ==
    IF s # << >> /\ Head(s) \in Whitespace THEN trimStart(Tail(s)) ELSE s

RECURSIVE trimEnd(_)
trimEnd(s) ==
    IF s # << >> /\ s[Len(s)] \in Whitespace
    THEN trimEnd(SubSeq(s, 1, Len(s) - 1))
    ELSE s

trim(s) == trimEnd(trimStart(s))

\* split(''): the array of the one-unit strings of s
split(s) == [k \in 1..Len(s) |-> <<s[k]>>]

RECURSIVE join(_)
\* join(''): the concatenation of the strings of an array
join(arr) == IF arr = << >> THEN << >> ELSE Head(arr) \o join(Tail(arr))

RECURSIVE StrLess(_, _)
\* the default order of Array.prototype.sort: strings by code units
StrLess(a, b) ==
    IF b = << >> THEN FALSE
    ELSE IF a = << >> THEN TRUE
    ELSE IF Head(a) # Head(b) THEN Head(a) < Head(b)
    ELSE StrLess(Tail(a), Tail(b))

RECURSIVE Insert(_, _)
Insert(x, sorted) ==
    IF sorted = << >> THEN <<x>>
    ELSE IF StrLess(x, Head(sorted)) THEN <<x>> \o sorted
    ELSE <<Head(sorted)>> \o Insert(x, Tail(sorted))

RECURSIVE sort(_)
\* Array.prototype.sort() without a comparator (stable, ascending)
sort(arr) ==
    IF arr = << >> THEN << >>
    ELSE Insert(arr[Len(arr)], sort(SubSeq(arr, 1, Len(arr) - 1)))

Contains(seq, x) == \E k \in 1..Len(seq) : seq[k] = x

\* [...new Set(arr)]: the first occurrence of each value, in order
SetOf(arr) ==
    LET primi == {k \in 1..Len(arr) : \A m \in 1..(k - 1) : arr[m] # arr[k]}
    IN  [j \in 1..Cardinality(primi) |->
            arr[CHOOSE k \in primi : Cardinality({m \in primi : m < k}) = j - 1]]

(***************************************************************************)
(* normalizza, sonoAnagrammi                                               *)
(***************************************************************************)
normalizza(p) == trim(replaceWhitespace(toLowerCase(p)))

ordina(str) == join(sort(split(str)))

sonoAnagrammiSenzaOrdina(parola1, parola2) ==
    LET p1 == normalizza(parola1)
        p2 == normalizza(parola2)
    IN  IF Len(p1) # Len(p2) THEN FALSE ELSE ordina(p1) = p2

sonoAnagrammi(parola1, parola2) ==
    LET p1 == normalizza(parola1)
        p2 == normalizza(parola2)
    IN  IF Len(p1) # Len(p2) THEN FALSE ELSE ordina(p1) = ordina(p2)

(***************************************************************************)
(* permutazioni                                                            *)
(***************************************************************************)
\* [...array.slice(0, i), ...array.slice(i + 1)]; k is the 1-based i + 1
resto(array, k) ==
    SubSeq(array, 1, k - 1) \o SubSeq(array, k + 1, Len(array))

RECURSIVE permutazioni(_)
RECURSIVE cicloPermutazioni(_, _)
\* the outer loop from index k on: what it pushes to risultato
cicloPermutazioni(array, k) ==
    IF k > Len(array) THEN << >>
    ELSE LET permutazioniResto == permutazioni(resto(array, k))
         IN  [m \in 1..Len(permutazioniResto) |->
                 <<array[k]>> \o permutazioniResto[m]]
             \o cicloPermutazioni(array, k + 1)

permutazioniBaseDue(array) ==
    IF Len(array) <= 2 THEN <<array>> ELSE cicloPermutazioni(array, 1)

permutazioni(array) ==
    IF Len(array) <= 1 THEN <<array>> ELSE cicloPermutazioni(array, 1)

(***************************************************************************)
(* generaAnagrammi                                                         *)
(***************************************************************************)
generaAnagrammiSempreUnici(p, unicoRisultato) ==
    LET tuttePermutazioni == permutazioni(split(normalizza(p)))
    IN  SetOf([m \in 1..Len(tuttePermutazioni) |-> join(tuttePermutazioni[m])])

\* the warning for words of more than 10 letters changes no state
generaAnagrammi(p, unicoRisultato) ==
    LET tuttePermutazioni == permutazioni(split(normalizza(p)))
        anagrammi ==
            [m \in 1..Len(tuttePermutazioni) |-> join(tuttePermutazioni[m])]
    IN  IF unicoRisultato THEN SetOf(anagrammi) ELSE anagrammi

(***************************************************************************)
(* An ordinary object used as a map ({}): the sequence of its own          *)
(* properties <<key, value>> in order of creation.  Its keys are           *)
(* enumerated as the language orders them: the integer indices first, in   *)
(* ascending numeric order, then the other strings in order of creation.   *)
(* The keys the program uses are single letters or sorted lower-case       *)
(* strings, none of which names a property of Object.prototype.            *)
(***************************************************************************)
HasOwn(obj, key) == \E k \in 1..Len(obj) : obj[k][1] = key

Get(obj, key) == obj[CHOOSE k \in 1..Len(obj) : obj[k][1] = key][2]

Put(obj, key, val) ==
    IF HasOwn(obj, key)
    THEN [k \in 1..Len(obj) |-> IF obj[k][1] = key THEN <<key, val>> ELSE obj[k]]
    ELSE Append(obj, <<key, val>>)

RECURSIVE ToNumber(_)
\* the value of a string of decimal digits
ToNumber(key) ==
    IF key = << >> THEN 0
    ELSE 10 * ToNumber(SubSeq(key, 1, Len(key) - 1)) + (key[Len(key)] - 48)

\* a canonical numeric string below 2^32 - 1; every such string of up to
\* 9 digits is, and the keys of the model are shorter than that
IsArrayIndex(key) ==
    /\ key # << >>
    /\ \A k \in 1..Len(key) : key[k] \in 48..57
    /\ (Len(key) = 1 \/ key[1] # 48)
    /\ Len(key) <= 9

RECURSIVE InsertIndex(_, _)
InsertIndex(x, sorted) ==
    IF sorted = << >> THEN <<x>>
    ELSE IF ToNumber(x) < ToNumber(Head(sorted)) THEN <<x>> \o sorted
    ELSE <<Head(sorted)>> \o InsertIndex(x, Tail(sorted))

RECURSIVE SortIndices(_)
SortIndices(keys) ==
    IF keys = << >> THEN << >>
    ELSE InsertIndex(keys[Len(keys)], SortIndices(SubSeq(keys, 1, Len(keys) - 1)))

CreationKeys(obj) == [k \in 1..Len(obj) |-> obj[k][1]]

\* OrdinaryOwnPropertyKeys
OwnKeys(obj) ==
    SortIndices(SelectSeq(CreationKeys(obj), IsArrayIndex))
        \o SelectSeq(CreationKeys(obj), LAMBDA key : ~IsArrayIndex(key))

\* Object.entries
Entries(obj) == [k \in 1..Len(obj) |-> <<OwnKeys(obj)[k], Get(obj, OwnKeys(obj)[k])>>]

\* Object.values
Values(obj) == [k \in 1..Len(obj) |-> Get(obj, OwnKeys(obj)[k])]

(***************************************************************************)
(* contaAnagrammi                                                          *)
(***************************************************************************)
RECURSIVE conteggioSenzaSomma(_)
conteggioSenzaSomma(ls) ==
    IF ls = << >> THEN << >>
    ELSE Put(conteggioSenzaSomma(SubSeq(ls, 1, Len(ls) - 1)), ls[Len(ls)], 1)

\* the occurrences of each letter: conteggio[l] = (conteggio[l] || 0) + 1
RECURSIVE conteggio(_)
conteggio(ls) ==
    IF ls = << >> THEN << >>
    ELSE LET prima == conteggio(SubSeq(ls, 1, Len(ls) - 1))
             lettera == ls[Len(ls)]
         IN  Put(prima, lettera,
                 (IF HasOwn(prima, lettera) THEN Get(prima, lettera) ELSE 0) + 1)

RECURSIVE prodottoFino(_, _)
\* result after the loop for (i = 2; i <= n; i++) result *= i, from k on
prodottoFino(k, n) == IF k > n THEN 1 ELSE k * prodottoFino(k + 1, n)

fattorialeCorto(n) == IF n <= 1 THEN 1 ELSE prodottoFino(2, n - 1)

fattoriale(n) == IF n <= 1 THEN 1 ELSE prodottoFino(2, n)

RECURSIVE denominatore(_)
\* denominatore *= fattoriale(count) over Object.values(conteggio)
denominatore(counts) ==
    IF counts = << >> THEN 1
    ELSE denominatore(SubSeq(counts, 1, Len(counts) - 1))
             * fattoriale(counts[Len(counts)])

\* the division of two numbers: the integer when exact, else the fraction
Quoziente(n, d) == IF n % d = 0 THEN n \div d ELSE <<n, "/", d>>

contaAnagrammi(p) ==
    LET ls == split(normalizza(p))
    IN  Quoziente(fattoriale(Len(ls)), denominatore(Values(conteggio(ls))))

(***************************************************************************)
(* chiaveAnagramma, raggruppaAnagrammi                                     *)
(***************************************************************************)
chiaveNonNormalizzata(p) == join(sort(split(p)))

chiaveAnagramma(p) == join(sort(split(normalizza(p))))

RECURSIVE gruppi(_)
\* the first loop: each word is pushed to the bucket of its key
gruppi(ps) ==
    IF ps = << >> THEN << >>
    ELSE LET prima == gruppi(SubSeq(ps, 1, Len(ps) - 1))
             p == ps[Len(ps)]
             chiave == chiaveAnagramma(p)
         IN  Put(prima, chiave,
                 Append(IF HasOwn(prima, chiave) THEN Get(prima, chiave) ELSE << >>, p))

tieniAncheSingoli(gruppo) == Len(gruppo) >= 1

\* gruppo.length > 1
tieni(gruppo) == Len(gruppo) > 1

RECURSIVE filtra(_)
\* the second loop over Object.entries(gruppi)
filtra(es) ==
    IF es = << >> THEN << >>
    ELSE LET prima == filtra(SubSeq(es, 1, Len(es) - 1))
             e == es[Len(es)]
         IN  IF tieni(e[2]) THEN Put(prima, e[1], e[2]) ELSE prima

raggruppaAnagrammi(ps) == filtra(Entries(gruppi(ps)))

(***************************************************************************)
(* Specification of the one-word operations:                               *)
(* generaAnagrammi, contaAnagrammi, permutazioni.                          *)
(***************************************************************************)
\* the variables an operation has not touched yet
Riposo ==
    /\ unico = TRUE
    /\ ris = << >>
    /\ lettere = << >>
    /\ i = 0
    /\ scambi = 0

InitAnagrammi ==
    /\ pc = "start"
    /\ parola \in Words(MaxLen)
    /\ altra = << >>
    /\ parole = << >>
    /\ Riposo

Genera(u) ==
    /\ pc = "start"
    /\ pc' = "generato"
    /\ unico' = u
    /\ ris' = generaAnagrammi(parola, u)
    /\ UNCHANGED <<parola, altra, parole, lettere, i, scambi>>

Conta ==
    /\ pc = "start"
    /\ pc' = "contato"
    /\ ris' = contaAnagrammi(parola)
    /\ UNCHANGED <<parola, altra, parole, unico, lettere, i, scambi>>

Permuta ==
    /\ pc = "start"
    /\ pc' = "permutato"
    /\ lettere' = split(parola)
    /\ ris' = permutazioni(split(parola))
    /\ UNCHANGED <<parola, altra, parole, unico, i, scambi>>

NextAnagrammi ==
    \/ \E u \in BOOLEAN : Genera(u)
    \/ Conta
    \/ Permuta

SpecAnagrammi == InitAnagrammi /\ [][NextAnagrammi]_vars

(***************************************************************************)
(* Reference notions the properties are stated with.                       *)
(***************************************************************************)
RECURSIVE Fact(_)
Fact(n) == IF n = 0 THEN 1 ELSE n * Fact(n - 1)

Occorrenze(s, u) == Cardinality({k \in 1..Len(s) : s[k] = u})

\* the same multiset of symbols
StessoMultinsieme(s, t) ==
    /\ Len(s) = Len(t)
    /\ \A k \in 1..Len(s) : Occorrenze(s, s[k]) = Occorrenze(t, s[k])

SenzaDoppioni(seq) ==
    \A k, m \in 1..Len(seq) : seq[k] = seq[m] => k = m

RECURSIVE LexLess(_, _)
LexLess(a, b) ==
    IF b = << >> THEN FALSE
    ELSE IF a = << >> THEN TRUE
    ELSE IF Head(a) # Head(b) THEN Head(a) < Head(b)
    ELSE LexLess(Tail(a), Tail(b))

Anna == <<97, 110, 110, 97>>

(***************************************************************************)
(* Properties of the one-word operations (under SpecAnagrammi).            *)
(***************************************************************************)

\* C1: contaAnagrammi(w) equals the number of strings that
\* generaAnagrammi(w, true) returns, the empty word and words with
\* repeated letters included.
ContaUgualeGenera ==
    (pc = "generato" /\ unico) =>
        /\ Len(ris) = contaAnagrammi(parola)
        /\ SenzaDoppioni(ris)

\* a word with a repeated letter has been generated without duplicates
ContaUgualeGeneraWitness ==
    /\ pc = "generato"
    /\ unico
    /\ Len(ris) > 1
    /\ Len(ris) < Fact(Len(normalizza(parola)))

\* C2: generaAnagrammi(w, false) returns exactly n! strings, n the length
\* of normalizza(w), duplicates included.
GeneraTutti ==
    (pc = "generato" /\ ~unico) => Len(ris) = Fact(Len(normalizza(parola)))

\* all the strings of a word with a repeated letter have been generated
GeneraTuttiWitness ==
    /\ pc = "generato"
    /\ ~unico
    /\ ~SenzaDoppioni(ris)
    /\ Len(ris) = 24

\* C3: every string returned by generaAnagrammi(w), with either flag, is
\* an anagram of w according to sonoAnagrammi.
GeneratiSonoAnagrammi ==
    pc = "generato" => \A k \in 1..Len(ris) : sonoAnagrammi(ris[k], parola)

\* C9 as stated: contaAnagrammi("anna") is 12.
ContaAnnaDodici == (pc = "contato" /\ parola = Anna) => ris = 12

\* C9 as amended: contaAnagrammi("anna") is 6, that is 4! / (2! * 2!).
ContaAnnaSei == (pc = "contato" /\ parola = Anna) => ris = 6

\* "anna" has been counted
ContaAnnaWitness == pc = "contato" /\ parola = Anna

\* C10: permutazioni returns n! sequences of length n, one for every
\* ordering of the n input positions (equal values are not merged), in the
\* order of the head's index and then of the permutations of the rest,
\* which is the lexicographic order of the position sequences; an input
\* of length 0 or 1 yields the result holding that input alone.
PermutazioniComplete ==
    pc = "permutato" =>
        LET n == Len(lettere)
            idx == permutazioni([k \in 1..n |-> k])
        IN  /\ Len(ris) = Fact(n)
            /\ Len(idx) = Fact(n)
            /\ \A m \in 1..Len(idx) :
                   /\ Len(idx[m]) = n
                   /\ {idx[m][k] : k \in 1..n} = 1..n
            /\ \A m \in 1..(Len(idx) - 1) : LexLess(idx[m], idx[m + 1])
            /\ \A m \in 1..Len(ris) :
                   ris[m] = [k \in 1..n |-> lettere[idx[m][k]]]
            /\ (n <= 1 => ris = <<lettere>>)

\* three items, two of them equal, have been permuted into six sequences
PermutazioniCompleteWitness ==
    /\ pc = "permutato"
    /\ Len(lettere) = 3
    /\ lettere[1] = lettere[2]
    /\ Len(ris) = 6

(***************************************************************************)
(* Specification of the two-word operations:                               *)
(* sonoAnagrammi and chiaveAnagramma on a pair of words.                   *)
(***************************************************************************)
InitCoppie ==
    /\ pc = "start"
    /\ \E A \in Alfabeti :
           /\ parola \in {s \in SeqsUpTo(A, MaxLenCoppia) : WellFormed(s)}
           /\ altra \in {s \in SeqsUpTo(A, MaxLenCoppia) : WellFormed(s)}
    /\ parole = << >>
    /\ Riposo

Confronta ==
    /\ pc = "start"
    /\ pc' = "confrontato"
    /\ ris' = sonoAnagrammi(parola, altra)
    /\ UNCHANGED <<parola, altra, parole, unico, lettere, i, scambi>>

Chiavi ==
    /\ pc = "start"
    /\ pc' = "chiavi"
    /\ ris' = <<chiaveAnagramma(parola), chiaveAnagramma(altra)>>
    /\ UNCHANGED <<parola, altra, parole, unico, lettere, i, scambi>>

NextCoppie ==
    \/ Confronta
    \/ Chiavi

SpecCoppie == InitCoppie /\ [][NextCoppie]_vars

\* C5: chiaveAnagramma(a) = chiaveAnagramma(b) if and only if
\* sonoAnagrammi(a, b), and both hold exactly when normalizza(a) and
\* normalizza(b) have the same multiset of symbols.
ChiaveSseAnagrammi ==
    pc = "chiavi" =>
        /\ (ris[1] = ris[2]) <=> sonoAnagrammi(parola, altra)
        /\ (ris[1] = ris[2]) <=>
               StessoMultinsieme(normalizza(parola), normalizza(altra))

\* two different words with one key, which differ from their key
ChiaveSseAnagrammiWitness ==
    /\ pc = "chiavi"
    /\ ris[1] = ris[2]
    /\ parola # altra
    /\ normalizza(parola) # normalizza(altra)
    /\ Len(parola) # Len(altra)

\* C8: sonoAnagrammi is symmetric and reflexive, the empty word and the
\* words made of whitespace only included.
SimmetricaRiflessiva ==
    pc = "confrontato" =>
        /\ ris = sonoAnagrammi(altra, parola)
        /\ parola = altra => ris = TRUE
        /\ sonoAnagrammi(parola, parola) = TRUE

\* two different words, of different lengths, found to be anagrams
SimmetricaRiflessivaWitness ==
    /\ pc = "confrontato"
    /\ ris = TRUE
    /\ normalizza(parola) # normalizza(altra)
    /\ Len(parola) # Len(altra)

(***************************************************************************)
(* Specification of raggruppaAnagrammi on a list of words.                 *)
(*   Vocabolario: "", " ", "an", "na", "A n", "12", "21", "10", "01"       *)
(***************************************************************************)
Vocabolario ==
    { << >>, <<32>>, <<97, 110>>, <<110, 97>>, <<65, 32, 110>>,
      <<49, 50>>, <<50, 49>>, <<49, 48>>, <<48, 49>> }

InitGruppi ==
    /\ pc = "start"
    /\ parole \in SeqsUpTo(Vocabolario, MaxParole)
    /\ parola = << >>
    /\ altra = << >>
    /\ Riposo

Raggruppa ==
    /\ pc = "start"
    /\ pc' = "raggruppato"
    /\ ris' = raggruppaAnagrammi(parole)
    /\ UNCHANGED <<parola, altra, parole, unico, lettere, i, scambi>>

NextGruppi == Raggruppa

SpecGruppi == InitGruppi /\ [][NextGruppi]_vars

\* the words of ps whose key is k, in the order of ps
ConChiave(ps, k) == SelectSeq(ps, LAMBDA p : chiaveAnagramma(p) = k)

\* C6: the keys of the mapping returned by raggruppaAnagrammi(ws) are
\* exactly the keys shared by at least 2 entries of ws, and the bucket of
\* key k is exactly the subsequence of ws (original strings, input order,
\* repeated entries kept) whose key is k.
GruppiEsatti ==
    pc = "raggruppato" =>
        /\ {ris[k][1] : k \in 1..Len(ris)} =
               {chiaveAnagramma(parole[m]) : m \in
                   {m \in 1..Len(parole) :
                       Len(ConChiave(parole, chiaveAnagramma(parole[m]))) >= 2}}
        /\ SenzaDoppioni(CreationKeys(ris))
        /\ \A k \in 1..Len(ris) :
               /\ ris[k][2] = ConChiave(parole, ris[k][1])
               /\ Len(ris[k][2]) >= 2

\* a group of three non-normalized words, one repeated, and a word
\* left out for want of a partner
GruppiEsattiWitness ==
    /\ pc = "raggruppato"
    /\ Len(ris) = 1
    /\ Len(parole) = 4
    /\ ris[1][2] = << <<65, 32, 110>>, <<110, 97>>, <<65, 32, 110>> >>

RECURSIVE PrimeOccorrenze(_)
\* the distinct keys of ps in the order of their first occurrence
PrimeOccorrenze(ps) ==
    IF ps = << >> THEN << >>
    ELSE LET prima == PrimeOccorrenze(SubSeq(ps, 1, Len(ps) - 1))
             chiave == chiaveAnagramma(ps[Len(ps)])
         IN  IF Contains(prima, chiave) THEN prima ELSE Append(prima, chiave)

\* C7: the keys of the mapping returned by raggruppaAnagrammi(ws) iterate
\* in the order in which each key first occurred in ws, keys made of
\* digits included.
ChiaviInOrdineDiArrivo ==
    pc = "raggruppato" =>
        OwnKeys(ris) = SelectSeq(PrimeOccorrenze(parole), LAMBDA k : HasOwn(ris, k))

(***************************************************************************)
(* Specification of mescolaLettere, one step of the loop at a time.        *)
(***************************************************************************)
InitMescola ==
    /\ pc = "start"
    /\ parola \in Words(MaxLen)
    /\ altra = << >>
    /\ parole = << >>
    /\ Riposo

\* const lettere = parola.split(''); let i = lettere.length - 1
Inizia ==
    /\ pc = "start"
    /\ pc' = "ciclo"
    /\ lettere' = split(parola)
    /\ i' = Len(parola) - 1
    /\ UNCHANGED <<parola, altra, parole, unico, ris, scambi>>

\* lettere with the elements at the 0-based indices a and b exchanged
scambia(ls, a, b) ==
    [k \in 1..Len(ls) |->
        IF k = a + 1 THEN ls[b + 1] ELSE IF k = b + 1 THEN ls[a + 1] ELSE ls[k]]

\* one turn of the loop; j is Math.floor(Math.random() * (i + 1))
Scambia(j) ==
    /\ pc = "ciclo"
    /\ i > 0
    /\ lettere' = scambia(lettere, i, j)
    /\ i' = i - 1
    /\ scambi' = scambi + 1
    /\ UNCHANGED <<pc, parola, altra, parole, unico, ris>>

\* the loop is over: return lettere.join('')
Ritorna ==
    /\ pc = "ciclo"
    /\ ~(i > 0)
    /\ pc' = "done"
    /\ ris' = join(lettere)
    /\ UNCHANGED <<parola, altra, parole, unico, lettere, i, scambi>>

NextMescola ==
    \/ Inizia
    \/ \E j \in 0..i : Scambia(j)
    \/ Ritorna

SpecMescola == InitMescola /\ [][NextMescola]_vars

Max(a, b) == IF a >= b THEN a ELSE b

\* the loop makes len - 1 swaps, each of which keeps the multiset of the
\* letters, and the string returned has the length of the word
MescolaConservaLettere ==
    /\ pc = "ciclo" =>
           /\ StessoMultinsieme(join(lettere), parola)
           /\ scambi = Max(Len(parola) - 1, 0) - Max(i, 0)
    /\ pc = "done" =>
           /\ scambi = Max(Len(parola) - 1, 0)
           /\ Len(ris) = Len(parola)
           /\ StessoMultinsieme(ris, parola)

\* C4: for every word and every choice of the indices j in 0..i, the loop
\* of mescolaLettere ends after len - 1 swaps, every swap keeps the
\* multiset of the letters, and the string returned has the length of the
\* word and is an anagram of it according to sonoAnagrammi.
MescolaAnagramma ==
    /\ MescolaConservaLettere
    /\ pc = "done" => sonoAnagrammi(ris, parola)

=============================================================================
